---- MODULE Spec2Model ----
(***************************************************************************)
(* Model of create_icons.py: the icon renderer create_icon and the driver  *)
(* main.  The filesystem is the icons directory (absent, a directory or a  *)
(* regular file) and the files under it.  The Pillow installation and the  *)
(* permissions of the filesystem are the environment: they are chosen in   *)
(* the initial state and do not change while the script runs.              *)
(*                                                                         *)
(* The module has two entry points (line 101 guards main): the script run  *)
(* (mode = "main") and a direct call of create_icon by an importer         *)
(* (mode = "call").                                                        *)
(***************************************************************************)
EXTENDS Integers, Sequences, FiniteSets, TLC

VARIABLES mode, pc, i, run, dir, files, env, calls, written, last, start, snap, err

vars == <<mode, pc, i, run, dir, files, env, calls, written, last, start, snap, err>>

(***************************************************************************)
(* Bounds of the model.                                                    *)
(***************************************************************************)
\* number of times the script is run one after another
MaxRuns == 2
\* number of icon files already present before the first run
MaxStale == 1
\* largest offset x0, y0 of the measured bounding box of "M"
MaxOff == 2
\* largest width and height of the measured bounding box of "M"
MaxExt == 2

(***************************************************************************)
(* Names and paths.                                                        *)
(***************************************************************************)
\* str(int) as used by the f-strings of lines 90 and 95
Digit(d) ==
  CASE d = 0 -> "0" [] d = 1 -> "1" [] d = 2 -> "2" [] d = 3 -> "3"
    [] d = 4 -> "4" [] d = 5 -> "5" [] d = 6 -> "6" [] d = 7 -> "7"
    [] d = 8 -> "8" [] d = 9 -> "9"

RECURSIVE Str(_)
Str(n) == IF n < 10 THEN Digit(n) ELSE Str(n \div 10) \o Digit(n % 10)

icons_dir == "icons"

Join(d, name) == d \o "/" \o name

sizes == <<16, 32, 48, 128>>

NormalPath(size) == Join(icons_dir, "icon" \o Str(size) \o ".png")

ActivePath(size) == Join(icons_dir, "icon" \o Str(size) \o "-active.png")

IconPaths ==
  {NormalPath(sizes[k]) : k \in 1..Len(sizes)} \cup {ActivePath(sizes[k]) : k \in 1..Len(sizes)}

\* a file of the icons directory that the script does not name
OtherPath == Join(icons_dir, "README.txt")

Universe == IconPaths \cup {OtherPath}

(***************************************************************************)
(* File contents.                                                          *)
(***************************************************************************)
NoFile == [kind |-> "none"]

Stale == [kind |-> "stale"]

Truncated == [kind |-> "truncated"]

(***************************************************************************)
(* create_icon, lines 10-73.                                               *)
(***************************************************************************)
Center(size) == size \div 2

Radius(size) == size \div 3

\* Ellipse with the colour pairs of the two branches exchanged
MutEllipse_Swapped(size, color, is_active) ==
  [box     |-> <<Center(size) - Radius(size), Center(size) - Radius(size),
                 Center(size) + Radius(size), Center(size) + Radius(size)>>,
   fill    |-> IF is_active THEN "#4285f4" ELSE "#34a853",
   outline |-> IF is_active THEN "#3367d6" ELSE "#2d7d2d",
   width   |-> 2]

\* lines 21-24 and 46-49: the circle; the colours are literals of the branch
Ellipse(size, color, is_active) ==
  [box     |-> <<Center(size) - Radius(size), Center(size) - Radius(size),
                 Center(size) + Radius(size), Center(size) + Radius(size)>>,
   fill    |-> IF is_active THEN "#34a853" ELSE "#4285f4",
   outline |-> IF is_active THEN "#2d7d2d" ELSE "#3367d6",
   width   |-> 2]

\* lines 36-40 and 60-64: position of the text from the measured box
TextX(size, bbox) == Center(size) - (bbox[3] - bbox[1]) \div 2

TextY(size, bbox) == Center(size) - (bbox[4] - bbox[2]) \div 2

\* lines 27-42 and 52-66: the try block.  ImageFont.load_default raises
\* when the glyph source is unavailable, draw.textbbox raises when the
\* installation cannot measure (Pillow before 8.0 has no textbbox).
TryGlyph(size, e) ==
  IF e.font = "ok"
  THEN [raised |-> FALSE,
        how    |-> "centred",
        at     |-> <<TextX(size, e.bbox), TextY(size, e.bbox)>>,
        ink    |-> <<TextX(size, e.bbox) + e.bbox[1], TextY(size, e.bbox) + e.bbox[2],
                     TextX(size, e.bbox) + e.bbox[3], TextY(size, e.bbox) + e.bbox[4]>>]
  ELSE [raised |-> TRUE, how |-> "none", at |-> <<>>, ink |-> <<>>]

\* lines 43-45 and 67-69: the except block.  draw.text without a font
\* loads the default font itself, so it raises when the glyph source is
\* unavailable.
Fallback(size, e) ==
  IF e.font = "unavailable"
  THEN [raised |-> TRUE, how |-> "none", at |-> <<>>, ink |-> <<>>]
  ELSE [raised |-> FALSE, how |-> "fallback",
        at |-> <<Center(size) - 4, Center(size) - 6>>, ink |-> <<>>]

\* lines 27-45 and 52-69: try, then except
DrawGlyph(size, e) ==
  IF TryGlyph(size, e).raised THEN Fallback(size, e) ELSE TryGlyph(size, e)

\* lines 14-69: the canvas after drawing
Canvas(size, color, is_active, e) ==
  [kind    |-> "png",
   w       |-> size,
   h       |-> size,
   ellipse |-> Ellipse(size, color, is_active),
   text    |-> [how |-> DrawGlyph(size, e).how,
                at  |-> DrawGlyph(size, e).at,
                ink |-> DrawGlyph(size, e).ink]]

\* line 72: img.save opens output_path for writing and encodes into it.
\* The open fails when the directory of the path is not a directory or the
\* path cannot be opened; when the encoder fails Pillow removes the file it
\* created and leaves a file it did not create truncated.
SaveRaises(output_path, d, e) ==
  d # "dir" \/ (e.bad = output_path /\ e.badMode \in {"open", "encode"})

\* Save that empties the directory before it writes
MutSave_Clean(img, output_path, fs, d, e) ==
  IF d # "dir" \/ (e.bad = output_path /\ e.badMode = "open")
  THEN fs
  ELSE IF e.bad = output_path /\ e.badMode = "encode"
       THEN [fs EXCEPT ![output_path] = IF fs[output_path] = NoFile THEN NoFile ELSE Truncated]
       ELSE [p \in DOMAIN fs |-> IF p = output_path THEN img ELSE NoFile]

Save(img, output_path, fs, d, e) ==
  IF d # "dir" \/ (e.bad = output_path /\ e.badMode = "open")
  THEN fs
  ELSE IF e.bad = output_path /\ e.badMode = "encode"
       THEN [fs EXCEPT ![output_path] = IF fs[output_path] = NoFile THEN NoFile ELSE Truncated]
       ELSE [fs EXCEPT ![output_path] = img]

\* lines 10-73: the whole call; raised is the exception that leaves it
create_icon(size, color, is_active, output_path, fs, d, e) ==
  IF DrawGlyph(size, e).raised
  THEN [files |-> fs, raised |-> "glyph", glyph |-> "none"]
  ELSE [files  |-> Save(Canvas(size, color, is_active, e), output_path, fs, d, e),
        raised |-> IF SaveRaises(output_path, d, e) THEN "save" ELSE "none",
        glyph  |-> DrawGlyph(size, e).how]

\* the record of a call, kept for the properties
CallRecord(size, color, is_active, output_path, fs, d, e) ==
  [size      |-> size,
   color     |-> color,
   is_active |-> is_active,
   path      |-> output_path,
   tried     |-> TryGlyph(size, e).raised,
   raised    |-> create_icon(size, color, is_active, output_path, fs, d, e).raised,
   glyph     |-> create_icon(size, color, is_active, output_path, fs, d, e).glyph]

NoCall ==
  [size |-> 0, color |-> "", is_active |-> FALSE, path |-> "", tried |-> FALSE,
   raised |-> "none", glyph |-> "none"]

(***************************************************************************)
(* The environment.                                                        *)
(***************************************************************************)
\* boxes that draw.textbbox((0, 0), "M") returns
BBoxes ==
  {<<x0, y0, x0 + bw, y0 + bh>> : x0 \in 0..MaxOff, y0 \in 0..MaxOff,
                                    bw \in 1..MaxExt, bh \in 1..MaxExt}

\* the boxes of the two default fonts of Pillow: the bitmap font and the
\* scalable font of Pillow 10.1 and later
DefaultBBoxes == {<<0, 0, 6, 11>>, <<0, 3, 8, 10>>}

NoPath == "-"

NoBBox == <<0, 0, 0, 0>>

Fonts(boxes) ==
  {[font |-> "ok", bbox |-> b] : b \in boxes}
    \cup {[font |-> f, bbox |-> NoBBox] : f \in {"measure_fails", "unavailable"}}

Faults(paths) ==
  {[bad |-> NoPath, badMode |-> "none"]}
    \cup {[bad |-> p, badMode |-> m] : p \in paths, m \in {"open", "encode"}}

Env(f, b, mk) ==
  [font |-> f.font, bbox |-> f.bbox, bad |-> b.bad, badMode |-> b.badMode, mkdirOk |-> mk]

NoSnap == [valid |-> FALSE, dir |-> "absent", files |-> [p \in Universe |-> NoFile]]

(***************************************************************************)
(* Initial states.                                                         *)
(***************************************************************************)
EmptyFiles == [p \in Universe |-> NoFile]

StaleFiles(S, other) ==
  [p \in Universe |-> IF p \in S THEN Stale
                      ELSE IF p = OtherPath /\ other THEN Stale ELSE NoFile]

InitFs ==
  \/ /\ dir = "absent"
     /\ files = EmptyFiles
     /\ \E f \in Fonts(DefaultBBoxes), b \in Faults(IconPaths), mk \in BOOLEAN :
          env = Env(f, b, mk)
  \/ /\ dir = "file"
     /\ files = EmptyFiles
     /\ \E f \in Fonts(DefaultBBoxes), b \in Faults(IconPaths) : env = Env(f, b, TRUE)
  \/ /\ dir = "dir"
     /\ \E S \in SUBSET IconPaths, other \in BOOLEAN :
          /\ Cardinality(S) <= MaxStale
          /\ files = StaleFiles(S, other)
     /\ \E f \in Fonts(DefaultBBoxes), b \in Faults(IconPaths) : env = Env(f, b, TRUE)

InitMain ==
  /\ mode = "main"
  /\ pc = "start"
  /\ i = 1
  /\ run = 1
  /\ InitFs
  /\ calls = <<>>
  /\ written = <<>>
  /\ last = NoCall
  /\ start = [dir |-> dir, files |-> files]
  /\ snap = NoSnap
  /\ err = "none"

(***************************************************************************)
(* main, lines 75-99.                                                      *)
(***************************************************************************)
\* MakeDirs that tests for the directory and does not create it
MutMakeDirs_NoCreate ==
  /\ mode = "main"
  /\ pc = "start"
  /\ dir' = dir
  /\ pc' = "normal"
  /\ err' = "none"
  /\ UNCHANGED <<mode, i, run, files, env, calls, written, last, start, snap>>

\* MakeDirs without the test of line 80: os.makedirs raises when the path exists
MutMakeDirs_NoExistsCheck ==
  /\ mode = "main"
  /\ pc = "start"
  /\ IF dir = "absent" /\ env.mkdirOk
     THEN dir' = "dir" /\ pc' = "normal" /\ err' = "none"
     ELSE dir' = dir /\ pc' = "failed" /\ err' = "mkdir"
  /\ UNCHANGED <<mode, i, run, files, env, calls, written, last, start, snap>>

\* lines 80-81: os.path.exists, os.makedirs
MakeDirs ==
  /\ mode = "main"
  /\ pc = "start"
  /\ IF dir = "absent"
     THEN IF env.mkdirOk
          THEN dir' = "dir" /\ pc' = "normal" /\ err' = "none"
          ELSE dir' = dir /\ pc' = "failed" /\ err' = "mkdir"
     ELSE dir' = dir /\ pc' = "normal" /\ err' = "none"
  /\ UNCHANGED <<mode, i, run, files, env, calls, written, last, start, snap>>

\* AfterCall of a loop that leaves out the last size
MutAfterCall_SkipLast(raised, loop, k) ==
  IF raised # "none" THEN [pc |-> "failed", i |-> k]
  ELSE IF k < Len(sizes) - 1 THEN [pc |-> loop, i |-> k + 1]
  ELSE IF loop = "normal" THEN [pc |-> "active", i |-> 1] ELSE [pc |-> "finish", i |-> 1]

\* AfterCall of a loop that catches the exception of a call and goes on
MutAfterCall_Continue(raised, loop, k) ==
  IF k < Len(sizes) THEN [pc |-> loop, i |-> k + 1]
  ELSE IF loop = "normal" THEN [pc |-> "active", i |-> 1] ELSE [pc |-> "finish", i |-> 1]

\* the loops of lines 89-91 and 94-96 have no handler: an exception of
\* create_icon ends main; otherwise the loop goes to the next size and
\* the first loop is followed by the second
AfterCall(raised, loop, k) ==
  IF raised # "none" THEN [pc |-> "failed", i |-> k]
  ELSE IF k < Len(sizes) THEN [pc |-> loop, i |-> k + 1]
  ELSE IF loop = "normal" THEN [pc |-> "active", i |-> 1] ELSE [pc |-> "finish", i |-> 1]

Render(loop, size, color, is_active, output_path) ==
  /\ mode = "main"
  /\ pc = loop
  /\ LET r == create_icon(size, color, is_active, output_path, files, dir, env)
     IN  /\ files' = r.files
         /\ last' = CallRecord(size, color, is_active, output_path, files, dir, env)
         /\ calls' = Append(calls, output_path)
         /\ written' = IF r.raised = "none" THEN Append(written, output_path) ELSE written
         /\ err' = r.raised
         /\ pc' = AfterCall(r.raised, loop, i).pc
         /\ i' = AfterCall(r.raised, loop, i).i
  /\ UNCHANGED <<mode, run, dir, env, start, snap>>

\* RenderNormal of a loop over the sizes from the last to the first
MutRenderNormal_Reversed ==
  Render("normal", sizes[Len(sizes) + 1 - i], "#4285f4", FALSE,
         NormalPath(sizes[Len(sizes) + 1 - i]))

\* lines 89-91
RenderNormal == Render("normal", sizes[i], "#4285f4", FALSE, NormalPath(sizes[i]))

\* lines 94-96
RenderActive == Render("active", sizes[i], "#34a853", TRUE, ActivePath(sizes[i]))

\* lines 98-99
Finish ==
  /\ mode = "main"
  /\ pc = "finish"
  /\ pc' = "done"
  /\ UNCHANGED <<mode, i, run, dir, files, env, calls, written, last, start, snap, err>>

\* the script is started again after it ended
Rerun ==
  /\ mode = "main"
  /\ pc \in {"done", "failed"}
  /\ run < MaxRuns
  /\ run' = run + 1
  /\ pc' = "start"
  /\ i' = 1
  /\ calls' = <<>>
  /\ written' = <<>>
  /\ last' = NoCall
  /\ err' = "none"
  /\ start' = [dir |-> dir, files |-> files]
  /\ snap' = [valid |-> pc = "done", dir |-> dir, files |-> files]
  /\ UNCHANGED <<mode, dir, files, env>>

(***************************************************************************)
(* A direct call of create_icon.                                           *)
(***************************************************************************)
CallSizes == {1, 16, 32, 48, 128}

CallColors == {"#4285f4", "#34a853", "#ff0000"}

CallPaths == {NormalPath(16), OtherPath}

InitCall ==
  /\ mode = "call"
  /\ pc = "start"
  /\ i = 1
  /\ run = 1
  /\ dir = "dir"
  /\ \E S \in SUBSET CallPaths : files = StaleFiles(S, FALSE)
  /\ \E f \in Fonts(BBoxes), b \in Faults({NormalPath(16)}) : env = Env(f, b, TRUE)
  /\ calls = <<>>
  /\ written = <<>>
  /\ \E size \in CallSizes, color \in CallColors, is_active \in BOOLEAN, p \in CallPaths :
       last = [NoCall EXCEPT !.size = size, !.color = color, !.is_active = is_active,
                             !.path = p]
  /\ start = [dir |-> dir, files |-> files]
  /\ snap = NoSnap
  /\ err = "none"

\* the call, with the arguments chosen in the initial state
CallCreateIcon ==
  /\ mode = "call"
  /\ pc = "start"
  /\ LET r == create_icon(last.size, last.color, last.is_active, last.path, files, dir, env)
     IN  /\ files' = r.files
         /\ last' = CallRecord(last.size, last.color, last.is_active, last.path, files, dir, env)
         /\ calls' = Append(calls, last.path)
         /\ written' = IF r.raised = "none" THEN Append(written, last.path) ELSE written
         /\ err' = r.raised
         /\ pc' = IF r.raised = "none" THEN "done" ELSE "failed"
  /\ UNCHANGED <<mode, i, run, dir, env, start, snap>>

Init == InitMain \/ InitCall

Next == MakeDirs \/ RenderNormal \/ RenderActive \/ Finish \/ Rerun \/ CallCreateIcon

Spec == Init /\ [][Next]_vars

(***************************************************************************)
(* Properties.                                                             *)
(***************************************************************************)
\* the eight output files and the size each is rendered at
IconSizeOf ==
  [p \in {"icons/icon16.png", "icons/icon32.png", "icons/icon48.png", "icons/icon128.png",
          "icons/icon16-active.png", "icons/icon32-active.png",
          "icons/icon48-active.png", "icons/icon128-active.png"} |->
     CASE p \in {"icons/icon16.png", "icons/icon16-active.png"} -> 16
       [] p \in {"icons/icon32.png", "icons/icon32-active.png"} -> 32
       [] p \in {"icons/icon48.png", "icons/icon48-active.png"} -> 48
       [] OTHER -> 128]

NormalIcons ==
  {"icons/icon16.png", "icons/icon32.png", "icons/icon48.png", "icons/icon128.png"}

ActiveIcons ==
  {"icons/icon16-active.png", "icons/icon32-active.png",
   "icons/icon48-active.png", "icons/icon128-active.png"}

\* the order in which main renders
RenderOrder ==
  <<"icons/icon16.png", "icons/icon32.png", "icons/icon48.png", "icons/icon128.png",
    "icons/icon16-active.png", "icons/icon32-active.png",
    "icons/icon48-active.png", "icons/icon128-active.png">>

Range(s) == {s[k] : k \in 1..Len(s)}

Abs(n) == IF n < 0 THEN -n ELSE n

\* a step that is one call of create_icon
IsRenderStep == Len(calls') = Len(calls) + 1

\* C1: when a run of main has completed, a file of size x size pixels exists
\* at each of the eight icon paths, and the run has called create_icon once
\* for each of exactly those eight paths, writing each once.
C1_AllIconsWritten ==
  (mode = "main" /\ pc = "done") =>
    /\ dir = "dir"
    /\ \A p \in DOMAIN IconSizeOf :
         /\ files[p].kind = "png"
         /\ files[p].w = IconSizeOf[p]
         /\ files[p].h = IconSizeOf[p]
    /\ Len(written) = 8
    /\ Range(written) = DOMAIN IconSizeOf
    /\ calls = written

C1_Witness ==
  /\ mode = "main"
  /\ pc = "done"
  /\ run = 1
  /\ start.dir = "absent"
  /\ Len(written) = 8

\* C2: the circle of every call that returns has the colour pair chosen by
\* is_active, blue #4285f4 / #3367d6 when false and green #34a853 / #2d7d2d
\* when true; after a completed run every iconNN.png has the blue pair and
\* every iconNN-active.png the green pair.
C2_FlagSelectsColourPair ==
  /\ (calls # <<>> /\ last.raised = "none") =>
       /\ files[last.path].ellipse.fill = (IF last.is_active THEN "#34a853" ELSE "#4285f4")
       /\ files[last.path].ellipse.outline = (IF last.is_active THEN "#2d7d2d" ELSE "#3367d6")
  /\ (mode = "main" /\ pc = "done") =>
       /\ \A p \in NormalIcons :
            files[p].ellipse.fill = "#4285f4" /\ files[p].ellipse.outline = "#3367d6"
       /\ \A p \in ActiveIcons :
            files[p].ellipse.fill = "#34a853" /\ files[p].ellipse.outline = "#2d7d2d"

C2_Witness ==
  /\ mode = "call"
  /\ pc = "done"
  /\ last.is_active
  /\ last.color = "#4285f4"
  /\ files[last.path].kind = "png"

\* C3: the circle of every call that returns is filled with the colour the
\* caller passed.
C3_FillIsCallerColour ==
  (calls # <<>> /\ last.raised = "none") => files[last.path].ellipse.fill = last.color

\* C4: a call whose glyph measurement or drawing failed draws the glyph at
\* (center - 4, center - 6), raises no glyph error and, unless saving fails,
\* writes its file.
C4_GlyphFailureIsSilent ==
  (calls # <<>> /\ last.tried) =>
    /\ last.raised # "glyph"
    /\ last.glyph = "fallback"
    /\ last.raised = "none" =>
         /\ files[last.path].kind = "png"
         /\ files[last.path].text.at = <<Center(last.size) - 4, Center(last.size) - 6>>

\* C5: a call of main that fails in saving ends the run in failure; the
\* files written earlier in the run stay as they are, and after the failure
\* the run calls create_icon no more and changes no file.
C5_SaveErrorEndsRun ==
  [][/\ (mode = "main" /\ IsRenderStep /\ last'.raised = "save") =>
          /\ pc' = "failed"
          /\ err' = "save"
          /\ written' = written
          /\ \A k \in 1..Len(written) : files'[written[k]] = files[written[k]]
     /\ (mode = "main" /\ pc = "failed") =>
          /\ files' = files
          /\ dir' = dir
          /\ calls' = calls \/ run' = run + 1]_vars

C5_Witness ==
  /\ mode = "main"
  /\ pc = "failed"
  /\ err = "save"
  /\ Len(written) = 5
  /\ Len(calls) = 6
  /\ \A k \in 1..Len(written) : files[written[k]].kind = "png"

\* C6: in a run of main a file changes only while icons is a directory; the
\* directory exists once main is past its creation when it was absent, stays
\* when it was there, and the file main does not name is never changed.
C6_DirectoryBeforeWrites ==
  mode = "main" =>
    /\ files # start.files => dir = "dir"
    /\ written # <<>> => dir = "dir"
    /\ (start.dir = "absent" /\ pc \in {"normal", "active", "finish", "done"}) => dir = "dir"
    /\ start.dir = "dir" => dir = "dir"
    /\ files[OtherPath] = start.files[OtherPath]

C6_Witness ==
  /\ mode = "main"
  /\ start.dir = "absent"
  /\ dir = "dir"
  /\ written # <<>>

\* C7: one call of create_icon leaves the directory and every path other
\* than output_path as they were, and a call that returns leaves its image
\* at output_path.
C7_OnePathPerCall ==
  [][IsRenderStep =>
       /\ dir' = dir
       /\ \A p \in Universe \ {last'.path} : files'[p] = files[p]
       /\ last'.raised = "none" =>
            /\ files'[last'.path].kind = "png"
            /\ files'[last'.path].w = last'.size
            /\ written' = Append(written, last'.path)]_vars

C7_Witness ==
  /\ mode = "main"
  /\ Len(written) = 2
  /\ last.raised = "none"
  /\ start.files[last.path] = Stale
  /\ files[last.path].kind = "png"
  /\ files[OtherPath] = Stale

\* C8: a run of main that follows a completed run does not fail, and when it
\* has completed the directory and the files are what the run before left.
C8_Idempotent ==
  (mode = "main" /\ snap.valid) =>
    /\ pc # "failed"
    /\ pc = "done" => (dir = snap.dir /\ files = snap.files)

C8_Witness ==
  /\ mode = "main"
  /\ snap.valid
  /\ run = 2
  /\ pc = "done"

\* C9: when the glyph is measured and drawn, the centre of the box of the
\* drawn glyph is within one pixel of (center, center) on each axis.
C9_GlyphCentred ==
  (calls # <<>> /\ last.raised = "none" /\ last.glyph = "centred") =>
    LET ink == files[last.path].text.ink
        c   == Center(last.size)
    IN  /\ Abs(ink[1] + ink[3] - 2 * c) <= 2
        /\ Abs(ink[2] + ink[4] - 2 * c) <= 2

\* C10: the files a run of main has written so far are a prefix of icon16,
\* icon32, icon48, icon128, icon16-active, icon32-active, icon48-active,
\* icon128-active, and nothing is called after a call that was not written.
C10_WrittenIsPrefix ==
  mode = "main" =>
    /\ Len(written) <= Len(RenderOrder)
    /\ \A k \in 1..Len(written) : written[k] = RenderOrder[k]
    /\ \A k \in 1..Len(calls) : calls[k] = RenderOrder[k]
    /\ (\E k \in 1..Len(written) : written[k] \in ActiveIcons) =>
         NormalIcons \subseteq Range(written)

C10_Witness ==
  /\ mode = "main"
  /\ pc = "failed"
  /\ Len(written) = 6
  /\ written[6] = "icons/icon32-active.png"

====
